---- MODULE Spec2Model ----
(***************************************************************************)
(* Job orchestration and result cache of the spotDL web API (src/main.py). *)
(*                                                                         *)
(* The state is the three process-wide maps (task_status, url_cache,       *)
(* temp_files), the part of the filesystem below DOWNLOAD_DIR, the         *)
(* position of every background executor and of every in-flight            *)
(* synchronous /get/audio-download-link request, the janitor thread and    *)
(* the wall clock.  A handler runs on the asyncio event loop, so a step of *)
(* the model is the code between two await points.                         *)
(***************************************************************************)
EXTENDS Integers, Sequences, FiniteSets, TLC

(* ------------------------------ bounds -------------------------------- *)
MaxJobs == 2
MaxReqs == 2
MaxTicks == 3

(* ------------------------- program constants -------------------------- *)
CACHE_TTL == 3600
DIR_MAX_AGE == 3600
SUBPROCESS_TIMEOUT == 120
CLEANUP_INTERVAL == 300

(* The clock advances by a minute (half the subprocess timeout), by the    *)
(* TTL, or by half a minute less than the TTL: enough to reach ages below, *)
(* at and above every threshold of the code, and to let time pass while a  *)
(* child process runs.                                                     *)
TickSteps == {SUBPROCESS_TIMEOUT \div 2,
              CACHE_TTL - (SUBPROCESS_TIMEOUT \div 4),
              CACHE_TTL}

(* ------------------------------ inputs -------------------------------- *)
Urls == {"u"}
Formats == {"mp3", "flac"}
Qualities == {"best"}
Kinds == {"track", "playlist", "save", "urls", "sync", "meta"}
JobIds == 1..MaxJobs
ReqIds == 1..MaxReqs

NoPath == <<>>
NoError == "None"
NoTask == 0
NoRc == -1
StderrText == "rate limited"
SpawnError == "[Errno 2] No such file or directory: 'spotdl'"
TimeoutText == "Download timeout after 2 minutes"

(* A file name: its stem and its extension (the part after the last dot). *)
FileName(stem, ext) == [stem |-> stem, ext |-> ext]
Mp3File == FileName("song", "mp3")
FlacFile == FileName("song", "flac")
TxtFile == FileName("notes", "txt")
SaveFile == FileName("list", "spotdl")
UrlsFile == FileName("urls", "txt")

VARIABLES now, ticks, task_status, exec, dirs, files, url_cache, temp_files,
          req, resp, janitor, returned, deleted, lastStore

vars == <<now, ticks, task_status, exec, dirs, files, url_cache, temp_files,
          req, resp, janitor, returned, deleted, lastStore>>

jobVars == <<task_status, exec, returned, deleted>>
cacheVars == <<url_cache, temp_files, req, resp, lastStore>>
fsVars == <<dirs, files>>
clockVars == <<now, ticks>>

(* ----------------------------- filesystem ----------------------------- *)
(* A path is a sequence of segments below DOWNLOAD_DIR. *)
JobDir(task_id) == <<"job", task_id>>
(* Mutant of TempDir: every request stages in the same directory. *)
TempDir_Shared(uid) == <<"temp", 0>>

TempDir(uid) == <<"temp", uid>>
InDir(dir, name) == Append(dir, name)
ParentOf(path) == SubSeq(path, 1, Len(path) - 1)
BaseName(path) == path[Len(path)]
ListDir(fs, dir) == {p \in fs : Len(p) = Len(dir) + 1 /\ ParentOf(p) = dir}
PathExists(path) == path \in files \/ path \in DOMAIN dirs
IsDir(path) == path \in DOMAIN dirs
MkDir(ds, dir) == IF dir \in DOMAIN ds THEN ds ELSE ds @@ (dir :> now)
RmTreeDirs(ds, dir) == [d \in DOMAIN ds \ {dir} |-> ds[d]]
RmTreeFiles(fs, dir) == fs \ ListDir(fs, dir)
Touch(ds, dir, mtime) == [ds EXCEPT ![dir] = mtime]

(* ------------------------------ job store ----------------------------- *)
Terminal == {"completed", "failed"}
InProgressStates == {"downloading", "processing"}
StatusValues == {"queued"} \cup InProgressStates \cup Terminal

DownloadStatus(task_id, status) ==
    [task_id |-> task_id, status |-> status, progress |-> "None",
     file_path |-> NoPath, error |-> NoError]

InProgress(kind) ==
    IF kind \in {"track", "playlist"} THEN "downloading" ELSE "processing"

(* What the acquisition tool can leave in a job's output directory. *)
ToolOutputs(kind) ==
    CASE kind \in {"track", "playlist"} -> {{}, {Mp3File}, {TxtFile}, {Mp3File, TxtFile}}
      [] kind \in {"save", "sync"} -> {{}, {SaveFile}}
      [] OTHER -> {{}}

Completed(path) == [status |-> "completed", file_path |-> path, error |-> NoError]
Failed(text) == [status |-> "failed", file_path |-> NoPath, error |-> text]

(* The terminal write of each executor, from the tool's exit status and    *)
(* the listing of the output directory.  A glob returns its matches in an  *)
(* order the OS chooses, so "the first file" is any of them.               *)
TrackResult(task_id, rc, listing) ==
    IF rc # 0 THEN {Failed(StderrText)}
    ELSE LET mp3 == {p \in listing : BaseName(p).ext = "mp3"}
             downloaded_files == IF mp3 # {} THEN mp3 ELSE listing
         IN IF downloaded_files # {}
            THEN {Completed(p) : p \in downloaded_files}
            ELSE {Failed("No file found after download")}

PlaylistResult(task_id, rc, listing) ==
    IF rc # 0 THEN {Failed(StderrText)}
    ELSE IF {p \in listing : BaseName(p).ext = "mp3"} # {}
         THEN {Completed(JobDir(task_id))}
         ELSE {Failed("No files found after download")}

SaveResult(task_id, rc, listing) ==
    IF rc = 0 THEN {Completed(InDir(JobDir(task_id), SaveFile))}
    ELSE {Failed(StderrText)}

UrlsResult(task_id, rc, listing) ==
    IF rc = 0 THEN {Completed(InDir(JobDir(task_id), UrlsFile))}
    ELSE {Failed(StderrText)}

SyncResult(task_id, rc, listing) ==
    IF rc = 0 THEN {Completed(JobDir(task_id))}
    ELSE {Failed(StderrText)}

MetaResult(task_id, rc, listing) ==
    IF rc = 0 THEN {Completed(NoPath)}
    ELSE {Failed(StderrText)}

JobResult(kind, task_id, rc, listing) ==
    CASE kind = "track" -> TrackResult(task_id, rc, listing)
      [] kind = "playlist" -> PlaylistResult(task_id, rc, listing)
      [] kind = "save" -> SaveResult(task_id, rc, listing)
      [] kind = "urls" -> UrlsResult(task_id, rc, listing)
      [] kind = "sync" -> SyncResult(task_id, rc, listing)
      [] OTHER -> MetaResult(task_id, rc, listing)

WriteRecord(ts, task_id, res) ==
    [ts EXCEPT ![task_id].status = res.status,
               ![task_id].file_path = res.file_path,
               ![task_id].error = res.error]

(* The janitor thread: its position and its locals (current_time, the     *)
(* expired_keys list, the size the dict iterator saw when it was created,  *)
(* the time the sleep ends).                                               *)
Janitor(pc, current_time, wake_at, expired_keys, used) ==
    [pc |-> pc, current_time |-> current_time, wake_at |-> wake_at,
     expired_keys |-> expired_keys, used |-> used]

(* ------------------------------- Init --------------------------------- *)
Init ==
    /\ now = 0
    /\ ticks = 0
    /\ task_status = <<>>
    /\ exec = <<>>
    /\ dirs = <<>>
    /\ files = {}
    /\ url_cache = <<>>
    /\ temp_files = <<>>
    /\ req = <<>>
    /\ resp = <<>>
    /\ janitor = Janitor("cycle", 0, 0, {}, 0)
    /\ returned = {}
    /\ deleted = {}
    /\ lastStore = <<>>

(* Mutant of Submit: the task is scheduled and the id returned, but the    *)
(* queued record is left for the executor to create.                       *)
Submit_WithoutRecord(kind) ==
    LET task_id == Cardinality(DOMAIN exec) + 1 IN
    /\ task_id <= MaxJobs
    /\ exec' = exec @@ (task_id :> [kind |-> kind, pc |-> "scheduled", returncode |-> NoRc])
    /\ returned' = returned \cup {task_id}
    /\ UNCHANGED <<task_status, deleted, cacheVars, fsVars, clockVars, janitor>>

(* ------------------------- submit endpoints --------------------------- *)
(* POST /download/track, /download/playlist, /save/metadata, /get/urls,    *)
(* /sync/playlist, /update/metadata: a fresh uuid4, the queued record, the *)
(* background task, the response carrying the id.  No await in between.    *)
Submit(kind) ==
    LET task_id == Cardinality(DOMAIN exec) + 1 IN
    /\ task_id <= MaxJobs
    /\ task_status' = task_status @@ (task_id :> DownloadStatus(task_id, "queued"))
    /\ exec' = exec @@ (task_id :> [kind |-> kind, pc |-> "scheduled", returncode |-> NoRc])
    /\ returned' = returned \cup {task_id}
    /\ UNCHANGED <<deleted, cacheVars, fsVars, clockVars, janitor>>

(* Mutant of ExecStart: the executor forgets the in-progress write. *)
ExecStart_WithoutInProgress(task_id) ==
    /\ task_id \in DOMAIN exec
    /\ exec[task_id].pc = "scheduled"
    /\ IF task_id \notin DOMAIN task_status
       THEN /\ exec' = [exec EXCEPT ![task_id].pc = "crashed"]
            /\ UNCHANGED dirs
       ELSE /\ dirs' = IF exec[task_id].kind = "meta" THEN dirs ELSE MkDir(dirs, JobDir(task_id))
            /\ exec' = [exec EXCEPT ![task_id].pc = "spawning"]
    /\ UNCHANGED <<task_status, files, returned, deleted, cacheVars, clockVars, janitor>>

(* ------------------------ background executors ------------------------ *)
(* The first statements of the task: the in-progress write and the output  *)
(* directory.  A missing record makes the write raise KeyError, and the    *)
(* except clause's own write raises it again: the task ends with the       *)
(* exception, nothing written.                                             *)
ExecStart(task_id) ==
    /\ task_id \in DOMAIN exec
    /\ exec[task_id].pc = "scheduled"
    /\ LET kind == exec[task_id].kind IN
       IF task_id \notin DOMAIN task_status
       THEN /\ exec' = [exec EXCEPT ![task_id].pc = "crashed"]
            /\ UNCHANGED <<task_status, fsVars>>
       ELSE /\ task_status' = [task_status EXCEPT ![task_id].status = InProgress(kind)]
            /\ dirs' = IF kind = "meta" THEN dirs ELSE MkDir(dirs, JobDir(task_id))
            /\ exec' = [exec EXCEPT ![task_id].pc = "spawning"]
            /\ UNCHANGED files
    /\ UNCHANGED <<returned, deleted, cacheVars, clockVars, janitor>>

(* await asyncio.create_subprocess_exec(...): the child starts, or the     *)
(* call raises (spotdl cannot be started) and the except clause writes     *)
(* failed with the exception's text.  A started tool exits later or never. *)
ExecSpawn(task_id) ==
    /\ task_id \in DOMAIN exec
    /\ exec[task_id].pc = "spawning"
    /\ \E spawned \in BOOLEAN, hung \in BOOLEAN :
         IF spawned
         THEN /\ exec' = [exec EXCEPT ![task_id].pc = IF hung THEN "hung" ELSE "awaiting"]
              /\ UNCHANGED task_status
         ELSE /\ hung = FALSE
              /\ IF task_id \in DOMAIN task_status
                 THEN /\ task_status' = WriteRecord(task_status, task_id, Failed(SpawnError))
                      /\ exec' = [exec EXCEPT ![task_id].pc = "finished"]
                 ELSE /\ exec' = [exec EXCEPT ![task_id].pc = "crashed"]
                      /\ UNCHANGED task_status
    /\ UNCHANGED <<returned, deleted, cacheVars, fsVars, clockVars, janitor>>

(* Mutant of ExecToolDone: the terminal write is an assignment of a whole  *)
(* record, which puts a record back under an id that has none.             *)
ExecToolDone_RecreatesRecord(task_id) ==
    /\ task_id \in DOMAIN exec
    /\ exec[task_id].pc = "awaiting"
    /\ LET kind == exec[task_id].kind IN
       \E rc \in {0, 1}, out \in ToolOutputs(kind) :
         LET written == {InDir(JobDir(task_id), n) : n \in out}
             urls == IF kind = "urls" /\ rc = 0
                     THEN {InDir(JobDir(task_id), UrlsFile)} ELSE {}
             listing == ListDir(files \cup written, JobDir(task_id))
             known == task_status @@ (task_id :> DownloadStatus(task_id, "queued"))
         IN /\ files' = files \cup written \cup urls
            /\ dirs' = IF written \cup urls # {}
                       THEN Touch(dirs, JobDir(task_id), now) ELSE dirs
            /\ \E res \in JobResult(kind, task_id, rc, listing) :
                  task_status' = WriteRecord(known, task_id, res)
            /\ exec' = [exec EXCEPT ![task_id].pc = "finished",
                                    ![task_id].returncode = rc]
    /\ UNCHANGED <<returned, deleted, cacheVars, clockVars, janitor>>

(* process.communicate() returns: the tool has exited with rc, leaving     *)
(* `out` in the output directory.  No executor of a job bounds this wait.  *)
(* returncode is kept with the terminal write it decided; an executor that *)
(* ends with the exception has decided nothing.                            *)
ExecToolDone(task_id) ==
    /\ task_id \in DOMAIN exec
    /\ exec[task_id].pc = "awaiting"
    /\ LET kind == exec[task_id].kind IN
       \E rc \in {0, 1}, out \in ToolOutputs(kind) :
         LET written == {InDir(JobDir(task_id), n) : n \in out}
             urls == IF kind = "urls" /\ rc = 0
                     THEN {InDir(JobDir(task_id), UrlsFile)} ELSE {}
             listing == ListDir(files \cup written, JobDir(task_id))
         IN /\ files' = files \cup written \cup urls
            /\ dirs' = IF written \cup urls # {}
                       THEN Touch(dirs, JobDir(task_id), now) ELSE dirs
            /\ IF task_id \in DOMAIN task_status
               THEN /\ \E res \in JobResult(kind, task_id, rc, listing) :
                          task_status' = WriteRecord(task_status, task_id, res)
                    /\ exec' = [exec EXCEPT ![task_id].pc = "finished",
                                            ![task_id].returncode = rc]
               ELSE /\ exec' = [exec EXCEPT ![task_id].pc = "crashed"]
                    /\ UNCHANGED task_status
    /\ UNCHANGED <<returned, deleted, cacheVars, clockVars, janitor>>

(* --------------------------- status, delete --------------------------- *)
(* Mutant of StatusQuery: the handler fills in the advisory progress of    *)
(* the record it returns.                                                  *)
StatusQuery_WritesProgress(task_id) ==
    /\ task_id \in DOMAIN task_status
    /\ task_status' = [task_status EXCEPT ![task_id].progress = "100"]
    /\ UNCHANGED <<exec, returned, deleted, cacheVars, fsVars, clockVars, janitor>>

(* GET /status/{task_id}: the record, or 404.  The handler reads only. *)
get_download_status(task_id) ==
    IF task_id \notin DOMAIN task_status
    THEN [code |-> 404, body |-> DownloadStatus(task_id, "None")]
    ELSE [code |-> 200, body |-> task_status[task_id]]

StatusQuery(task_id) ==
    /\ get_download_status(task_id).code \in {200, 404}
    /\ UNCHANGED vars

(* Mutant of get_download_file: the handler does not look at the status. *)
get_download_file_WithoutStatusCheck(task_id) ==
    IF task_id \notin DOMAIN task_status
    THEN [code |-> 404, served |-> NoPath]
    ELSE LET status == task_status[task_id] IN
         IF status.file_path = NoPath \/ ~PathExists(status.file_path)
         THEN [code |-> 404, served |-> NoPath]
         ELSE IF IsDir(status.file_path)
         THEN [code |-> 200, served |-> <<"zip", status.file_path[2]>>]
         ELSE [code |-> 200, served |-> status.file_path]

(* GET /download/{task_id}: 404 for an unknown id, 400 for a job that is   *)
(* not completed, 404 for a result that is unset or not on disk; else the  *)
(* file, or for a directory the archive <file_path>.zip written next to it.*)
ZipPath(path) == <<"zip", path[2]>>

get_download_file(task_id) ==
    IF task_id \notin DOMAIN task_status
    THEN [code |-> 404, served |-> NoPath]
    ELSE LET status == task_status[task_id] IN
         IF status.status # "completed"
         THEN [code |-> 400, served |-> NoPath]
         ELSE IF status.file_path = NoPath \/ ~PathExists(status.file_path)
         THEN [code |-> 404, served |-> NoPath]
         ELSE IF IsDir(status.file_path)
         THEN [code |-> 200, served |-> ZipPath(status.file_path)]
         ELSE [code |-> 200, served |-> status.file_path]

GetDownloadFile(task_id) ==
    /\ files' = IF get_download_file(task_id).code = 200
                THEN files \cup {get_download_file(task_id).served}
                ELSE files
    /\ UNCHANGED <<dirs, jobVars, cacheVars, clockVars, janitor>>

(* Mutant of DeleteTask: the record goes, the result stays on disk. *)
DeleteTask_KeepsFiles(task_id) ==
    /\ task_id \in DOMAIN task_status
    /\ task_status' = [t \in DOMAIN task_status \ {task_id} |-> task_status[t]]
    /\ deleted' = deleted \cup {task_id}
    /\ UNCHANGED <<exec, returned, cacheVars, fsVars, clockVars, janitor>>

(* DELETE /task/{task_id} *)
DeleteTask(task_id) ==
    /\ task_id \in DOMAIN task_status
    /\ LET path == task_status[task_id].file_path IN
       IF path # NoPath /\ PathExists(path)
       THEN IF IsDir(path)
            THEN /\ dirs' = RmTreeDirs(dirs, path)
                 /\ files' = RmTreeFiles(files, path)
            ELSE /\ files' = files \ {path}
                 /\ UNCHANGED dirs
       ELSE UNCHANGED fsVars
    /\ task_status' = [t \in DOMAIN task_status \ {task_id} |-> task_status[t]]
    /\ deleted' = deleted \cup {task_id}
    /\ UNCHANGED <<exec, returned, cacheVars, clockVars, janitor>>

(* DELETE of an id that has no record: 404, nothing changes. *)
DeleteUnknown(task_id) ==
    /\ task_id \notin DOMAIN task_status
    /\ UNCHANGED vars

(* --------------------------- result cache ----------------------------- *)
(* The text that is hashed; md5 is taken to be collision-free on it. *)
CacheKey(url, format, quality) == url \o "_" \o format \o "_" \o quality

(* Mutant of CacheProbe: the probe trusts the entry without looking at the *)
(* disk.                                                                   *)
CacheProbe_WithoutExists(cache_key) ==
    IF /\ cache_key \in DOMAIN url_cache
       /\ now - url_cache[cache_key].timestamp < CACHE_TTL
    THEN url_cache[cache_key].file_path
    ELSE NoPath

(* The probe of lines 132-135: the cached path on a hit, NoPath on a miss. *)
CacheProbe(cache_key) ==
    IF /\ cache_key \in DOMAIN url_cache
       /\ now - url_cache[cache_key].timestamp < CACHE_TTL
       /\ PathExists(url_cache[cache_key].file_path)
    THEN url_cache[cache_key].file_path
    ELSE NoPath

(* Mutant of CacheStore: an entry that is already there is kept (the first *)
(* store wins).                                                            *)
CacheStore_KeepsFirst(cache, cache_key, path) ==
    IF cache_key \in DOMAIN cache THEN cache
    ELSE [k \in DOMAIN cache \cup {cache_key} |->
             IF k = cache_key THEN [file_path |-> path, timestamp |-> now]
             ELSE cache[k]]

CacheStore(cache, cache_key, path) ==
    [k \in DOMAIN cache \cup {cache_key} |->
        IF k = cache_key THEN [file_path |-> path, timestamp |-> now] ELSE cache[k]]

(* temp_files[download_url] = path; the url is base_url/temp-download/name, *)
(* so the link is the file's name.  A dict keeps its keys in the order of  *)
(* their first insertion, and an assignment to a known key keeps its place.*)
Registration(path) == [link |-> BaseName(path), path |-> path]
Links(registry) == {registry[i].link : i \in 1..Len(registry)}
Register(registry, path) ==
    IF BaseName(path) \in Links(registry)
    THEN [i \in 1..Len(registry) |->
             IF registry[i].link = BaseName(path) THEN Registration(path)
             ELSE registry[i]]
    ELSE Append(registry, Registration(path))

StablePath(cache_key, name) ==
    <<"stable", FileName(cache_key \o "_" \o name.stem, name.ext)>>

(* What the tool can leave in the staging directory of a download. *)
DownloadOutputs == {{}, {Mp3File}, {FlacFile}, {TxtFile}}

(* downloaded_files[0] of lines 191-208: the matches of each pattern in    *)
(* turn, the requested format first; the first match of the first pattern  *)
(* that matches anything.  The empty set when nothing matches.             *)
Patterns(format) == <<format, "mp3", "m4a", "ogg", "wav">>
FirstDownloaded(listing, format) ==
    LET pats == Patterns(format)
        hits == {i \in 1..Len(pats) : {p \in listing : BaseName(p).ext = pats[i]} # {}}
    IN IF hits = {} THEN {}
       ELSE LET first == CHOOSE i \in hits : \A j \in hits : i <= j
            IN {p \in listing : BaseName(p).ext = pats[first]}

(* The detail of an HTTPException: its text and, for the artifact that was *)
(* not found (line 206), the names of the files the staging directory held.*)
Detail(text, found) == [text |-> text, found |-> found]
NoDetail == Detail("None", {})
DownloadFailed == Detail("Download failed: " \o StderrText, {})
NotFoundText == "No audio file found after download. Files found: "
TimedOut == Detail(TimeoutText, {})
ServerError == Detail("Internal server error: " \o SpawnError, {})

Response(code, cached, path, detail) ==
    [code |-> code, cached |-> cached, task_id |-> NoTask, file_path |-> path,
     detail |-> detail]

(* A request in flight: its parameters, its position, the time its wait    *)
(* on the child began (0 once it has been answered), the child's exit      *)
(* status once communicate() has returned.                                 *)
Request(url, format, quality, pc, expect_hit) ==
    [url |-> url, format |-> format, quality |-> quality, pc |-> pc,
     started_at |-> IF pc = "awaiting" THEN now ELSE 0, expect_hit |-> expect_hit,
     returncode |-> NoRc]

(* POST /get/audio-download-link up to its first await: the cache probe    *)
(* and, on a hit, the registration and the cached response; on a miss the  *)
(* staging directory and the child process (which may fail to start: 500). *)
ReqStart(url, format, quality) ==
    LET r == Cardinality(DOMAIN req) + 1
        cache_key == CacheKey(url, format, quality)
        hit == CacheProbe(cache_key)
        expect == /\ cache_key \in DOMAIN lastStore
                  /\ now - lastStore[cache_key].timestamp < CACHE_TTL
    IN
    /\ r <= MaxReqs
    /\ IF hit # NoPath
       THEN /\ temp_files' = Register(temp_files, hit)
            /\ req' = req @@ (r :> Request(url, format, quality, "done", expect))
            /\ resp' = resp @@ (r :> Response(200, TRUE, hit, NoDetail))
            /\ UNCHANGED fsVars
       ELSE /\ dirs' = MkDir(dirs, TempDir(r))
            /\ UNCHANGED <<files, temp_files>>
            /\ \E spawned \in BOOLEAN :
                 IF spawned
                 THEN /\ req' = req @@ (r :> Request(url, format, quality, "awaiting", expect))
                      /\ UNCHANGED resp
                 ELSE /\ req' = req @@ (r :> Request(url, format, quality, "done", expect))
                      /\ resp' = resp @@ (r :> Response(500, FALSE, NoPath, ServerError))
    /\ UNCHANGED <<url_cache, lastStore, jobVars, clockVars, janitor>>

(* communicate() returns within the timeout: exit status, artifact         *)
(* discovery, the move to the stable path (or the fallback when the move   *)
(* raises), the cache store, the registration, the response.               *)
ReqToolDone(r) ==
    /\ r \in DOMAIN req
    /\ req[r].pc = "awaiting"
    /\ now - req[r].started_at < SUBPROCESS_TIMEOUT
    /\ LET temp_dir == TempDir(r)
           cache_key == CacheKey(req[r].url, req[r].format, req[r].quality)
       IN
       \E rc \in {0, 1}, out \in DownloadOutputs, mtime \in {req[r].started_at, now},
          moved \in BOOLEAN :
         LET written == IF temp_dir \in DOMAIN dirs
                        THEN {InDir(temp_dir, n) : n \in out} ELSE {}
             fs1 == files \cup written
             ds1 == IF written # {} THEN Touch(dirs, temp_dir, mtime) ELSE dirs
             found == FirstDownloaded(ListDir(fs1, temp_dir), req[r].format)
             all_files == {BaseName(p) : p \in ListDir(fs1, temp_dir)}
         IN
         /\ req' = [req EXCEPT ![r].pc = "done", ![r].started_at = 0,
                               ![r].returncode = rc]
         /\ IF rc # 0
            THEN /\ moved /\ mtime = now
                 /\ dirs' = RmTreeDirs(ds1, temp_dir)
                 /\ files' = RmTreeFiles(fs1, temp_dir)
                 /\ resp' = resp @@ (r :> Response(400, FALSE, NoPath, DownloadFailed))
                 /\ UNCHANGED <<url_cache, temp_files, lastStore>>
            ELSE IF found = {}
            THEN /\ moved /\ mtime = now
                 /\ dirs' = RmTreeDirs(ds1, temp_dir)
                 /\ files' = RmTreeFiles(fs1, temp_dir)
                 /\ resp' = resp @@ (r :> Response(400, FALSE, NoPath,
                                          Detail(NotFoundText, all_files)))
                 /\ UNCHANGED <<url_cache, temp_files, lastStore>>
            ELSE \E audio_file \in found :
                 LET stable_path == StablePath(cache_key, BaseName(audio_file))
                     kept == IF moved THEN stable_path ELSE audio_file
                 IN
                 /\ IF moved
                    THEN /\ dirs' = RmTreeDirs(ds1, temp_dir)
                         /\ files' = RmTreeFiles(fs1, temp_dir) \cup {stable_path}
                    ELSE /\ dirs' = ds1
                         /\ files' = fs1
                 /\ url_cache' = CacheStore(url_cache, cache_key, kept)
                 /\ lastStore' = CacheStore(lastStore, cache_key, kept)
                 /\ temp_files' = Register(temp_files, kept)
                 /\ resp' = resp @@ (r :> Response(200, FALSE, kept, NoDetail))
    /\ UNCHANGED <<jobVars, clockVars, janitor>>

(* Mutant of ReqTimeout: the request that timed out also drops the cache   *)
(* entry of its fingerprint.                                               *)
ReqTimeout_EvictsEntry(r) ==
    /\ r \in DOMAIN req
    /\ req[r].pc = "awaiting"
    /\ now - req[r].started_at >= SUBPROCESS_TIMEOUT
    /\ dirs' = RmTreeDirs(dirs, TempDir(r))
    /\ files' = RmTreeFiles(files, TempDir(r))
    /\ req' = [req EXCEPT ![r].pc = "done", ![r].started_at = 0]
    /\ resp' = resp @@ (r :> Response(408, FALSE, NoPath, TimedOut))
    /\ url_cache' = [k \in DOMAIN url_cache \
                          {CacheKey(req[r].url, req[r].format, req[r].quality)} |->
                        url_cache[k]]
    /\ UNCHANGED <<temp_files, lastStore, jobVars, clockVars, janitor>>

(* asyncio.wait_for gives up after 120 s: the child is killed, the staging *)
(* directory removed, the request answered 408.                            *)
ReqTimeout(r) ==
    /\ r \in DOMAIN req
    /\ req[r].pc = "awaiting"
    /\ now - req[r].started_at >= SUBPROCESS_TIMEOUT
    /\ dirs' = RmTreeDirs(dirs, TempDir(r))
    /\ files' = RmTreeFiles(files, TempDir(r))
    /\ req' = [req EXCEPT ![r].pc = "done", ![r].started_at = 0]
    /\ resp' = resp @@ (r :> Response(408, FALSE, NoPath, TimedOut))
    /\ UNCHANGED <<url_cache, temp_files, lastStore, jobVars, clockVars, janitor>>

(* ------------------------- retrieval by name -------------------------- *)
(* The string a path is stored as in temp_files (str(audio_file)).  The    *)
(* stem of a stable name begins with the cache key.                        *)
DOWNLOAD_DIR == "/tmp/spotdl_api/downloads"
NameText(name) == name.stem \o "." \o name.ext
PathText(path) ==
    CASE path[1] = "stable" -> DOWNLOAD_DIR \o "/" \o NameText(path[2])
      [] path[1] = "temp" ->
           DOWNLOAD_DIR \o "/temp_" \o ToString(path[2]) \o "/" \o NameText(path[3])
      [] OTHER -> DOWNLOAD_DIR \o "/" \o ToString(path[2])

(* Python's `needle in hay` on strings. *)
Contains(hay, needle) ==
    \E i \in 1..(Len(hay) - Len(needle) + 1) :
        SubSeq(hay, i, i + Len(needle) - 1) = needle

(* The names asked for: the name of a stable file as the endpoint hands it *)
(* out, the name the tool gave the file, and a directory of the path.      *)
RequestNames ==
    {NameText(BaseName(StablePath(CacheKey("u", "mp3", "best"), Mp3File))),
     NameText(Mp3File), "downloads"}

(* GET /temp-download/{filename}: the loop over temp_files.items() takes   *)
(* the first registration whose path contains the decoded name; 404 when   *)
(* no path contains it or when the file of that registration is gone.      *)
NotFound == [code |-> 404, file_path |-> NoPath]
temp_download_file(decoded_filename) ==
    LET matches == {i \in 1..Len(temp_files) :
                       Contains(PathText(temp_files[i].path), decoded_filename)}
    IN IF matches = {}
       THEN NotFound
       ELSE LET first == CHOOSE i \in matches : \A j \in matches : i <= j
            IN IF PathExists(temp_files[first].path)
               THEN [code |-> 200, file_path |-> temp_files[first].path]
               ELSE NotFound

TempDownload(decoded_filename) ==
    /\ temp_download_file(decoded_filename).code \in {200, 404}
    /\ UNCHANGED vars

(* ------------------------------- clock -------------------------------- *)
Tick(step) ==
    /\ ticks < MaxTicks
    /\ now' = now + step
    /\ ticks' = ticks + 1
    /\ UNCHANGED <<jobVars, cacheVars, fsVars, janitor>>

(* ------------------------------ janitor ------------------------------- *)
(* cleanup_old_files runs on a thread of its own, so the event loop's      *)
(* handlers run between its statements.  One cycle is three steps: the     *)
(* sweep of the temp_* directories, the loop over url_cache.items() that   *)
(* collects expired_keys, and the deletions followed by time.sleep(300).   *)
(* The thread's locals are kept only while a cycle uses them.              *)
StaleDirs(current_time) ==
    {d \in DOMAIN dirs : d[1] = "temp" /\ current_time - dirs[d] > DIR_MAX_AGE}

ExpiredKeys(current_time) ==
    {k \in DOMAIN url_cache : current_time - url_cache[k].timestamp > CACHE_TTL}

(* Mutant of JanitorSweepDirs: the cycle also purges the records of the    *)
(* jobs that have ended.                                                   *)
JanitorSweepDirs_PurgesJobs ==
    /\ janitor.pc = "cycle"
    /\ now >= janitor.wake_at
    /\ dirs' = [d \in DOMAIN dirs \ StaleDirs(now) |-> dirs[d]]
    /\ files' = {p \in files : ParentOf(p) \notin StaleDirs(now)}
    /\ task_status' = [t \in {u \in DOMAIN task_status :
                                 task_status[u].status \notin Terminal} |->
                          task_status[t]]
    /\ janitor' = Janitor("cache", now, 0, {}, 0)
    /\ UNCHANGED <<exec, returned, deleted, cacheVars, clockVars>>

JanitorSweepDirs ==
    /\ janitor.pc = "cycle"
    /\ now >= janitor.wake_at
    /\ dirs' = [d \in DOMAIN dirs \ StaleDirs(now) |-> dirs[d]]
    /\ files' = {p \in files : ParentOf(p) \notin StaleDirs(now)}
    /\ janitor' = Janitor("cache", now, 0, {}, 0)
    /\ UNCHANGED <<jobVars, cacheVars, clockVars>>

(* shutil.rmtree (line 99) raises on a stale directory `bad`: the except   *)
(* clause around the whole cycle body (lines 91-111) catches it, so the    *)
(* directories the glob had not reached yet stay, the scan of url_cache is *)
(* skipped, and the thread goes to sleep.  The glob's order is the OS's:   *)
(* `removed` is any set of stale directories visited before `bad`.         *)
JanitorSweepFault ==
    /\ janitor.pc = "cycle"
    /\ now >= janitor.wake_at
    /\ \E bad \in StaleDirs(now) :
         \E removed \in SUBSET (StaleDirs(now) \ {bad}) :
            /\ dirs' = [d \in DOMAIN dirs \ removed |-> dirs[d]]
            /\ files' = {p \in files : ParentOf(p) \notin removed}
    /\ janitor' = Janitor("cycle", 0, now + CLEANUP_INTERVAL, {}, 0)
    /\ UNCHANGED <<jobVars, cacheVars, clockVars>>

(* Lines 103-106: the loop over url_cache.items() appends the keys whose    *)
(* entry is older than the TTL.  The iterator remembers the dict's size.   *)
JanitorScanCache ==
    /\ janitor.pc = "cache"
    /\ janitor' = Janitor("evict", janitor.current_time, 0,
                          ExpiredKeys(janitor.current_time),
                          Cardinality(DOMAIN url_cache))
    /\ UNCHANGED <<jobVars, cacheVars, fsVars, clockVars>>

(* Lines 107-113.  A handler that stored a new key since the iterator was  *)
(* created did so either while the loop was still running, and then the    *)
(* iterator raised RuntimeError (dictionary changed size during            *)
(* iteration), the except clause caught it and nothing is deleted, or      *)
(* after the loop, and then the collected keys are deleted.  A key         *)
(* collected as expired is deleted whatever its entry holds by now.        *)
JanitorEvict ==
    /\ janitor.pc = "evict"
    /\ \E raised \in BOOLEAN :
         /\ raised => Cardinality(DOMAIN url_cache) # janitor.used
         /\ url_cache' = IF raised THEN url_cache
                         ELSE [k \in DOMAIN url_cache \ janitor.expired_keys |->
                                  url_cache[k]]
    /\ janitor' = Janitor("cycle", 0, now + CLEANUP_INTERVAL, {}, 0)
    /\ UNCHANGED <<temp_files, req, resp, lastStore, jobVars, fsVars, clockVars>>

(* GET /tasks: the records of the Job Store.  The handler reads only. *)
list_tasks == [tasks |-> {task_status[task_id] : task_id \in DOMAIN task_status}]

ListTasks ==
    /\ Cardinality(list_tasks.tasks) = Cardinality(DOMAIN task_status)
    /\ UNCHANGED vars

(* time.sleep(300) returns.  The model's clock stops at its bound; from    *)
(* then on the sleep is taken to end without the clock moving, so that the *)
(* cycles go on.  Ages only grow with time, so an entry or a directory     *)
(* that is old enough stays old enough.                                    *)
JanitorWakes ==
    /\ janitor.pc = "cycle"
    /\ ticks = MaxTicks
    /\ now < janitor.wake_at
    /\ janitor' = Janitor("cycle", 0, now, {}, 0)
    /\ UNCHANGED <<jobVars, cacheVars, fsVars, clockVars>>

CacheNext ==
    \/ \E url \in Urls, format \in Formats, quality \in Qualities :
         ReqStart(url, format, quality)
    \/ \E r \in ReqIds : ReqToolDone(r)
    \/ \E r \in ReqIds : ReqTimeout(r)
    \/ \E decoded_filename \in RequestNames : TempDownload(decoded_filename)
    \/ \E step \in TickSteps : Tick(step)
    \/ JanitorSweepDirs
    \/ JanitorSweepFault
    \/ JanitorScanCache
    \/ JanitorEvict

JobNext ==
    \/ \E kind \in Kinds : Submit(kind)
    \/ \E task_id \in JobIds : ExecStart(task_id)
    \/ \E task_id \in JobIds : ExecSpawn(task_id)
    \/ \E task_id \in JobIds : ExecToolDone(task_id)
    \/ \E task_id \in JobIds : StatusQuery(task_id)
    \/ \E task_id \in JobIds : GetDownloadFile(task_id)
    \/ \E task_id \in JobIds : DeleteTask(task_id)
    \/ \E task_id \in JobIds : DeleteUnknown(task_id)
    \/ ListTasks

JobSpec == Init /\ [][JobNext]_vars

CacheSpec == Init /\ [][CacheNext]_vars

(* The request fields are unvalidated strings (Optional[str]): the         *)
(* endpoint accepts any format and any quality.  KeySpec is the request    *)
(* flow alone, with formats and qualities that contain the separator of    *)
(* the hashed text.                                                        *)
KeyFormats == {"mp3", "mp3_best"}
KeyQualities == {"best", "x", "best_x"}

KeyNext ==
    \/ \E url \in Urls, format \in KeyFormats, quality \in KeyQualities :
         ReqStart(url, format, quality)
    \/ \E r \in ReqIds : ReqToolDone(r)

KeySpec == Init /\ [][KeyNext]_vars

Next == JobNext \/ CacheNext \/ KeyNext \/ JanitorWakes

Spec == Init /\ [][Next]_vars

(* The event loop runs every task that is ready: an executor whose next    *)
(* step is enabled takes it.  Nothing in an executor waits on the clock.   *)
FairJobSpec ==
    /\ Init
    /\ [][JobNext]_vars
    /\ \A task_id \in JobIds :
         /\ WF_vars(ExecStart(task_id))
         /\ WF_vars(ExecSpawn(task_id))
         /\ WF_vars(ExecToolDone(task_id))

(* The job endpoints and executors with the clock and the janitor thread:  *)
(* hours pass and cycles run while records exist.  No request of the       *)
(* download-link endpoint is made, so there is no staging directory on     *)
(* which a cycle could fail.  Two kinds of job are submitted: one whose    *)
(* tool writes media files and one whose tool writes a save file.          *)
AgedKinds == {"track", "save"}

AgedJobNext ==
    \/ \E kind \in AgedKinds : Submit(kind)
    \/ \E task_id \in JobIds : ExecStart(task_id)
    \/ \E task_id \in JobIds : ExecSpawn(task_id)
    \/ \E task_id \in JobIds : ExecToolDone(task_id)
    \/ \E task_id \in JobIds : StatusQuery(task_id)
    \/ \E task_id \in JobIds : GetDownloadFile(task_id)
    \/ \E task_id \in JobIds : DeleteTask(task_id)
    \/ ListTasks
    \/ Tick(CACHE_TTL)
    \/ JanitorSweepDirs
    \/ JanitorScanCache
    \/ JanitorEvict

AgedJobSpec == Init /\ [][AgedJobNext]_vars

(* The attempts alone, running side by side: job executors and requests of *)
(* the download-link endpoint, without the clock, the janitor and DELETE.  *)
AttemptNext ==
    \/ \E kind \in AgedKinds : Submit(kind)
    \/ \E task_id \in JobIds : ExecStart(task_id)
    \/ \E task_id \in JobIds : ExecSpawn(task_id)
    \/ \E task_id \in JobIds : ExecToolDone(task_id)
    \/ \E url \in Urls, format \in Formats, quality \in Qualities :
         ReqStart(url, format, quality)
    \/ \E r \in ReqIds : ReqToolDone(r)

AttemptSpec == Init /\ [][AttemptNext]_vars

(* The janitor thread with the requests of the download-link endpoint and  *)
(* the clock, for what the thread does in the long run.  The thread is     *)
(* scheduled: whenever it can take its next step it eventually does, and   *)
(* whether rmtree raises in a cycle is the filesystem's choice.  The clock *)
(* advances, and a child that can exit does.                               *)
JanitorCycleBegins == JanitorSweepDirs \/ JanitorSweepFault

FairJanitorNext ==
    \/ \E url \in Urls, quality \in Qualities : ReqStart(url, "mp3", quality)
    \/ \E r \in ReqIds : ReqToolDone(r)
    \/ \E r \in ReqIds : ReqTimeout(r)
    \/ \E step \in TickSteps : Tick(step)
    \/ JanitorSweepDirs
    \/ JanitorSweepFault
    \/ JanitorScanCache
    \/ JanitorEvict
    \/ JanitorWakes

FairJanitorSpec ==
    /\ Init
    /\ [][FairJanitorNext]_vars
    /\ WF_vars(JanitorCycleBegins)
    /\ WF_vars(JanitorScanCache)
    /\ WF_vars(JanitorEvict)
    /\ WF_vars(JanitorWakes)
    /\ WF_vars(\E step \in TickSteps : Tick(step))

(* ============================== claims ================================ *)
HasRecord(task_id) == task_id \in DOMAIN task_status
IsTerminal(task_id) == HasRecord(task_id) /\ task_status[task_id].status \in Terminal
MediaKinds == {"track", "playlist"}
AllKeys == {CacheKey(u, f, q) : u \in Urls, f \in Formats, q \in Qualities}

(* C1: under fair scheduling of the executors, every job that has been     *)
(* created eventually has status completed or failed (or has been removed  *)
(* by DELETE); none stays queued, downloading or processing forever.       *)
C1_EveryJobTerminates ==
    \A task_id \in JobIds :
        HasRecord(task_id) ~> (~HasRecord(task_id) \/ IsTerminal(task_id))

(* C2: a track or playlist download whose tool never exits is killed at    *)
(* the timeout: its job eventually is failed with the timeout error.       *)
C2_HungMediaJobTimesOut ==
    \A task_id \in JobIds :
        (/\ HasRecord(task_id)
         /\ exec[task_id].kind \in MediaKinds
         /\ exec[task_id].pc = "hung")
        ~> (\/ ~HasRecord(task_id)
            \/ /\ task_status[task_id].status = "failed"
               /\ task_status[task_id].error = TimeoutText)

(* C3: once a record is completed or failed, no step changes any of its    *)
(* fields; the only thing that can happen to it is its removal by DELETE.  *)
C3_TerminalRecordFrozen ==
    [][\A task_id \in DOMAIN task_status :
          task_status[task_id].status \in Terminal =>
             IF task_id \in DOMAIN task_status'
             THEN task_status'[task_id] = task_status[task_id]
             ELSE task_id \in deleted' \ deleted]_vars

(* C3 witness: a terminal record stands while the other job's executor has *)
(* started, finished and been deleted around it.                           *)
C3_Witness ==
    \E task_id \in DOMAIN task_status, other \in deleted :
        /\ task_status[task_id].status = "failed"
        /\ task_status[task_id].error = StderrText
        /\ exec[other].pc = "finished"

(* C4: a terminal job has exactly one of file_path and error set, a        *)
(* non-terminal job has neither.                                           *)
C4_ExactlyOneOfResultOrError ==
    \A task_id \in DOMAIN task_status :
        LET r == task_status[task_id] IN
        IF r.status \in Terminal
        THEN (r.file_path # NoPath) # (r.error # NoError)
        ELSE r.file_path = NoPath /\ r.error = NoError

(* C5: status takes only the five values and moves only queued ->          *)
(* downloading/processing -> completed/failed; a record is created queued; *)
(* and while the tool of a job runs, its record is in progress.            *)
AllowedTransitions ==
    ({"queued"} \X InProgressStates) \cup (InProgressStates \X Terminal)

C5_StatusTransitions ==
    [][/\ \A task_id \in DOMAIN task_status' :
            /\ task_status'[task_id].status \in StatusValues
            /\ IF task_id \in DOMAIN task_status
               THEN \/ task_status'[task_id].status = task_status[task_id].status
                    \/ <<task_status[task_id].status, task_status'[task_id].status>>
                          \in AllowedTransitions
               ELSE task_status'[task_id].status = "queued"
       /\ \A task_id \in DOMAIN exec' \cap DOMAIN task_status' :
            exec'[task_id].pc \in {"awaiting", "hung"} =>
               task_status'[task_id].status \in InProgressStates]_vars

(* C5 witness: a job that went all the way to completed with a result. *)
C5_Witness ==
    \E task_id \in DOMAIN task_status :
        /\ task_status[task_id].status = "completed"
        /\ task_status[task_id].file_path # NoPath
        /\ exec[task_id].pc = "finished"

(* C6: a status query for an id that a submit endpoint has returned, and   *)
(* that no DELETE has removed, never answers not-found.                    *)
C6_ReturnedIdIsKnown ==
    \A task_id \in returned \ deleted : get_download_status(task_id).code = 200

(* C6 witness: the id is out, the executor has not run yet, the query      *)
(* answers the queued record.                                              *)
C6_Witness ==
    \E task_id \in returned :
        /\ exec[task_id].pc = "scheduled"
        /\ get_download_status(task_id).code = 200
        /\ get_download_status(task_id).body.status = "queued"

(* C7: after a store of (key, path), while less than the TTL has passed    *)
(* since the store, a probe for the key returns the path as a hit if the   *)
(* file exists and reports a miss if the file has been deleted.            *)
C7_ProbeAfterStore ==
    \A cache_key \in DOMAIN lastStore :
        now - lastStore[cache_key].timestamp < CACHE_TTL =>
            CacheProbe(cache_key) =
                IF PathExists(lastStore[cache_key].file_path)
                THEN lastStore[cache_key].file_path
                ELSE NoPath

(* C7 witness: the stored file was deleted before the TTL elapsed and the  *)
(* probe misses, time having passed since the store.                       *)
C7_Witness ==
    \E cache_key \in DOMAIN lastStore :
        /\ now > lastStore[cache_key].timestamp
        /\ now - lastStore[cache_key].timestamp < CACHE_TTL
        /\ ~PathExists(lastStore[cache_key].file_path)
        /\ CacheProbe(cache_key) = NoPath

(* C8: a probe misses exactly when the entry is absent, or its age exceeds *)
(* the TTL (the janitor's condition), or its file is gone; an entry of age *)
(* exactly TTL is a hit.                                                   *)
C8_MissExactlyWhenAbsentExpiredOrGone ==
    \A cache_key \in AllKeys :
        (CacheProbe(cache_key) = NoPath) <=>
            \/ cache_key \notin DOMAIN url_cache
            \/ now - url_cache[cache_key].timestamp > CACHE_TTL
            \/ ~PathExists(url_cache[cache_key].file_path)

(* C9: a request for a triple whose earlier request succeeded less than    *)
(* the TTL ago is answered cached:true, without invoking the tool.         *)
C9_SecondRequestIsCached ==
    \A r \in DOMAIN req :
        req[r].expect_hit =>
            /\ req[r].pc = "done"
            /\ resp[r].code = 200
            /\ resp[r].cached

(* C10: a successful response of /get/audio-download-link that is not      *)
(* served from the cache carries a task_id whose status query answers a    *)
(* record in one of the five states.                                       *)
C10_UncachedResponseCarriesTaskId ==
    \A r \in DOMAIN resp :
        (resp[r].code = 200 /\ ~resp[r].cached) =>
            /\ resp[r].task_id # NoTask
            /\ get_download_status(resp[r].task_id).code = 200
            /\ get_download_status(resp[r].task_id).body.status \in StatusValues

(* C11: the cache key is a function of (url, format, quality): requests   *)
(* with the same triple have the same key, and requests with the same url  *)
(* that differ in format or in quality have different keys (the hashed     *)
(* texts differ).                                                          *)
C11_KeySeparatesFormatAndQuality ==
    \A r1 \in DOMAIN req, r2 \in DOMAIN req :
        LET k1 == CacheKey(req[r1].url, req[r1].format, req[r1].quality)
            k2 == CacheKey(req[r2].url, req[r2].format, req[r2].quality)
        IN /\ (/\ req[r1].url = req[r2].url
               /\ req[r1].format = req[r2].format
               /\ req[r1].quality = req[r2].quality) => k1 = k2
           /\ (/\ req[r1].url = req[r2].url
               /\ \/ req[r1].format # req[r2].format
                  \/ req[r1].quality # req[r2].quality) => k1 # k2

(* The janitor's steps.  A cycle reads the clock once (line 92); the time  *)
(* of the cycle a step belongs to is the stored current_time in the cache  *)
(* scan and the clock itself in the step that begins the cycle.            *)
JanitorStep == janitor' # janitor
CycleEnds == JanitorStep /\ janitor'.pc = "cycle"
CycleTime == IF janitor.pc = "cycle" THEN now ELSE janitor.current_time

(* C12: a janitor step removes only staging directories older than 1 hour  *)
(* and only cache entries older than the TTL, and when a cycle ends no     *)
(* such directory and no such entry is left: a second cycle at the same    *)
(* time would remove nothing.                                              *)
C12_CycleRemovesExactlyTheStale ==
    [][JanitorStep =>
         /\ \A d \in DOMAIN dirs \ DOMAIN dirs' :
                d[1] = "temp" /\ CycleTime - dirs[d] > DIR_MAX_AGE
         /\ \A k \in DOMAIN url_cache \ DOMAIN url_cache' :
                CycleTime - url_cache[k].timestamp > CACHE_TTL
         /\ CycleEnds =>
               /\ \A d \in DOMAIN dirs' :
                      d[1] = "temp" => CycleTime - dirs'[d] <= DIR_MAX_AGE
               /\ \A k \in DOMAIN url_cache' :
                      CycleTime - url_cache'[k].timestamp <= CACHE_TTL]_vars

(* C13: a cycle in which the removal of one staging directory raises (the  *)
(* cycle then ends in the step that began it) still removes every other    *)
(* stale staging directory and every expired cache entry.                  *)
C13_FaultDoesNotAbortCycle ==
    [][(janitor.pc = "cycle" /\ CycleEnds) =>
         /\ Cardinality({d \in DOMAIN dirs' :
                            d[1] = "temp" /\ now - dirs'[d] > DIR_MAX_AGE}) <= 1
         /\ \A k \in DOMAIN url_cache' :
                now - url_cache'[k].timestamp <= CACHE_TTL]_vars

(* C14: no exception leaves an executor: an executor never ends with an   *)
(* uncaught exception, and one that has ended has left its job terminal,   *)
(* whatever status queries, other executors and a DELETE of its own job    *)
(* did in between.                                                         *)
C14_NoExceptionEscapesExecutor ==
    \A task_id \in DOMAIN exec :
        /\ exec[task_id].pc # "crashed"
        /\ exec[task_id].pc = "finished" =>
              (~HasRecord(task_id) \/ IsTerminal(task_id))

(* C15: when the tool has exited with a non-zero status, the job is failed *)
(* with the tool's standard-error text as its error and its output         *)
(* directory is gone; the synchronous request is answered with an error    *)
(* carrying that text and its staging directory is gone.                   *)
C15_NonZeroExitFailsAndDiscards ==
    /\ \A task_id \in DOMAIN exec :
          (/\ exec[task_id].returncode \notin {NoRc, 0}
           /\ exec[task_id].pc = "finished"
           /\ HasRecord(task_id)) =>
              /\ task_status[task_id].status = "failed"
              /\ task_status[task_id].error = StderrText
              /\ ~IsDir(JobDir(task_id))
    /\ \A r \in DOMAIN resp :
          req[r].returncode \notin {NoRc, 0} =>
              /\ resp[r].code = 400
              /\ resp[r].detail = DownloadFailed
              /\ ~IsDir(TempDir(r))

(* C16: after exit status 0, artifact discovery finds an artifact whenever *)
(* the directory holds any file at all: a track job whose output directory *)
(* is not empty is completed, and a synchronous request is answered        *)
(* "no audio file found" only when its staging directory held no file.     *)
C16_AnyFileIsAnArtifact ==
    /\ \A task_id \in DOMAIN exec :
          (/\ exec[task_id].kind = "track"
           /\ exec[task_id].pc = "finished"
           /\ exec[task_id].returncode = 0
           /\ HasRecord(task_id)
           /\ ListDir(files, JobDir(task_id)) # {}) =>
              task_status[task_id].status = "completed"
    /\ \A r \in DOMAIN resp :
          (req[r].returncode = 0 /\ resp[r].detail.text = NotFoundText) =>
              resp[r].detail.found = {}

(* C17: retrieval by name serves only a registered, existing file whose    *)
(* final path segment is the requested name, and answers 404 when no       *)
(* registered path has that final segment.                                 *)
C17_RetrievalServesTheRequestedName ==
    \A decoded_filename \in RequestNames :
        LET reply == temp_download_file(decoded_filename)
        IN /\ reply.code = 200 =>
                 /\ \E i \in 1..Len(temp_files) : temp_files[i].path = reply.file_path
                 /\ PathExists(reply.file_path)
                 /\ NameText(BaseName(reply.file_path)) = decoded_filename
           /\ (\A i \in 1..Len(temp_files) :
                   NameText(temp_files[i].link) # decoded_filename) =>
                 reply.code = 404

(* C18: DELETE of an existing job removes its record and whatever is at   *)
(* its file_path; from then on a status query and a result fetch for the   *)
(* id answer 404 and, the record being absent, so does another DELETE; a   *)
(* DELETE takes effect only on an id that has a record.                    *)
C18_DeleteRemovesJobAndResult ==
    /\ [](\A task_id \in deleted :
            /\ ~HasRecord(task_id)
            /\ get_download_status(task_id).code = 404
            /\ get_download_file(task_id).code = 404)
    /\ [][\A task_id \in deleted' \ deleted :
            /\ task_id \in DOMAIN task_status
            /\ task_id \notin DOMAIN task_status'
            /\ LET path == task_status[task_id].file_path IN
               path # NoPath => (path \notin files' /\ path \notin DOMAIN dirs')]_vars

(* C18 witness: a deleted job whose result was its output directory, which *)
(* the DELETE has removed.                                                 *)
C18_Witness ==
    \E task_id \in deleted :
        /\ exec[task_id].kind \in {"playlist", "sync"}
        /\ exec[task_id].pc = "finished"
        /\ exec[task_id].returncode = 0
        /\ ~IsDir(JobDir(task_id))
        /\ get_download_status(task_id).code = 404

(* C19: a result fetch answers 404 for an unknown id, 400 for a job that   *)
(* is not completed, 404 for a completed job whose file_path is unset or   *)
(* not on disk, and serves only the existing result of a completed job; no *)
(* fetch changes the job store.                                            *)
C19_FetchNeverChangesJobStore ==
    /\ [](\A task_id \in JobIds :
            LET reply == get_download_file(task_id) IN
            /\ ~HasRecord(task_id) => reply.code = 404
            /\ (HasRecord(task_id) /\ task_status[task_id].status # "completed") =>
                  reply.code = 400
            /\ (/\ HasRecord(task_id)
                /\ task_status[task_id].status = "completed"
                /\ \/ task_status[task_id].file_path = NoPath
                   \/ ~PathExists(task_status[task_id].file_path)) =>
                  reply.code = 404
            /\ reply.code = 200 =>
                  /\ HasRecord(task_id)
                  /\ task_status[task_id].status = "completed"
                  /\ PathExists(task_status[task_id].file_path))
    /\ [][(\E task_id \in JobIds : GetDownloadFile(task_id)) =>
            task_status' = task_status]_vars

(* C19 witness: a completed directory result has been fetched (its archive *)
(* is on disk) next to a completed job without a result, whose fetch       *)
(* answers 404.                                                            *)
C19_Witness ==
    \E task_id \in DOMAIN task_status, other \in DOMAIN task_status :
        /\ get_download_file(task_id).code = 200
        /\ get_download_file(task_id).served \in files
        /\ IsDir(task_status[task_id].file_path)
        /\ task_status[other].status = "completed"
        /\ get_download_file(other).code = 404

(* C20: once an attempt has failed or timed out, its directory is gone: a *)
(* failed job has no output directory, an answered request has no staging  *)
(* directory, and the artifact of a successful request is at its stable    *)
(* path.                                                                   *)
C20_AttemptLeavesNoDirectory ==
    /\ \A task_id \in DOMAIN exec :
          (/\ exec[task_id].pc = "finished"
           /\ HasRecord(task_id)
           /\ task_status[task_id].status = "failed") =>
              ~IsDir(JobDir(task_id))
    /\ \A r \in DOMAIN resp :
          /\ ~IsDir(TempDir(r))
          /\ (resp[r].code = 200 /\ ~resp[r].cached) =>
                resp[r].file_path[1] = "stable"

(* C21: no janitor step deletes the file of a cache entry whose age is     *)
(* within the TTL, whichever code path stored the entry.                   *)
C21_JanitorKeepsCachedFiles ==
    [][JanitorStep =>
         \A k \in DOMAIN url_cache :
            (/\ now - url_cache[k].timestamp < CACHE_TTL
             /\ url_cache[k].file_path \in files) =>
                url_cache[k].file_path \in files']_vars

(* A request that was answered with a freshly acquired file (it missed,    *)
(* ran the tool and stored).                                               *)
Acquired(r) == r \in DOMAIN resp /\ resp[r].code = 200 /\ ~resp[r].cached
KeyOf(r) == CacheKey(req[r].url, req[r].format, req[r].quality)

(* C22: when a request stores while another request for the same           *)
(* fingerprint, whose store happened after this one began, has already     *)
(* stored, the one entry for the fingerprint is the later store's: its     *)
(* path is the file this request kept, its timestamp is the time of this   *)
(* store, and the file exists; the two staging directories differ.         *)
C22_LastStoreWins ==
    [][\A r \in DOMAIN resp' \ DOMAIN resp : \A other \in DOMAIN resp :
          (/\ resp'[r].code = 200 /\ ~resp'[r].cached
           /\ Acquired(other)
           /\ KeyOf(other) = KeyOf(r)
           /\ req[r].started_at <= lastStore[KeyOf(r)].timestamp) =>
              /\ KeyOf(r) \in DOMAIN url_cache'
              /\ url_cache'[KeyOf(r)] =
                    [file_path |-> resp'[r].file_path, timestamp |-> now]
              /\ resp'[r].file_path \in files'
              /\ TempDir(r) # TempDir(other)]_vars

(* Two requests for one fingerprint both acquired, the second store 60 s   *)
(* after the first: the second began before the first stored.              *)
C22_Witness ==
    \E r \in DOMAIN resp, other \in DOMAIN resp :
        /\ r # other /\ Acquired(r) /\ Acquired(other)
        /\ KeyOf(r) = KeyOf(other)
        /\ now = 60
        /\ lastStore[KeyOf(r)].timestamp = 0 + 60
        /\ KeyOf(r) \in DOMAIN url_cache
        /\ url_cache[KeyOf(r)].timestamp = now

(* C23: url_cache changes only in the step in which a request is answered  *)
(* with a freshly acquired file, and then only at that request's key, or   *)
(* in a step of the janitor, which only removes entries; the step that     *)
(* probes the cache (hit, expired or dangling) leaves url_cache as it was  *)
(* and, on a miss, temp_files too; the step that answers 400 or 408 leaves *)
(* url_cache and temp_files as they were.                                  *)
C23_CacheFrame ==
    [][/\ url_cache' # url_cache =>
            \/ \E r \in DOMAIN resp' \ DOMAIN resp :
                  /\ resp'[r].code = 200 /\ ~resp'[r].cached
                  /\ DOMAIN url_cache' = DOMAIN url_cache \cup {KeyOf(r)}
                  /\ \A k \in DOMAIN url_cache \ {KeyOf(r)} :
                        url_cache'[k] = url_cache[k]
            \/ /\ JanitorStep
               /\ DOMAIN url_cache' \subseteq DOMAIN url_cache
               /\ \A k \in DOMAIN url_cache' : url_cache'[k] = url_cache[k]
       /\ DOMAIN req' # DOMAIN req =>
             /\ url_cache' = url_cache
             /\ (\A r \in DOMAIN resp' \ DOMAIN resp : ~resp'[r].cached) =>
                    temp_files' = temp_files
       /\ \A r \in DOMAIN resp' \ DOMAIN resp :
             resp'[r].code \in {400, 408} =>
                 /\ url_cache' = url_cache
                 /\ temp_files' = temp_files]_vars

(* A request probed an entry younger than the TTL whose file was gone,     *)
(* missed, and failed: the dangling entry is still there.                  *)
C23_Witness ==
    \E r \in DOMAIN resp :
        /\ req[r].expect_hit
        /\ resp[r].code \in {400, 408}
        /\ KeyOf(r) \in DOMAIN url_cache
        /\ url_cache[KeyOf(r)] = lastStore[KeyOf(r)]
        /\ ~PathExists(url_cache[KeyOf(r)].file_path)
        /\ Len(temp_files) > 0

(* C24: a record leaves task_status only in a step that is the DELETE of   *)
(* its id; hence every id that a submission returned and no DELETE has     *)
(* removed has a record and is in the listing, however much time has       *)
(* passed and however many janitor cycles have run.                        *)
C24_OnlyDeleteRemovesRecord ==
    /\ [](\A task_id \in returned \ deleted :
             /\ HasRecord(task_id)
             /\ task_status[task_id] \in list_tasks.tasks)
    /\ [][\A task_id \in DOMAIN task_status \ DOMAIN task_status' :
             DeleteTask(task_id)]_vars

(* A job whose output directory is older than the janitor's threshold has  *)
(* ended, a janitor cycle has run since, and its record is listed.         *)
C24_Witness ==
    \E task_id \in DOMAIN task_status :
        /\ IsTerminal(task_id)
        /\ JobDir(task_id) \in DOMAIN dirs
        /\ now - dirs[JobDir(task_id)] > DIR_MAX_AGE
        /\ janitor.pc = "cycle"
        /\ janitor.wake_at > now
        /\ task_status[task_id] \in list_tasks.tasks

(* No step removes a registration or moves it: the links registered stay, *)
(* in their order.                                                         *)
RegistrationsStay ==
    [][\A i \in 1..Len(temp_files) :
          /\ i <= Len(temp_files')
          /\ temp_files'[i].link = temp_files[i].link]_vars

(* C25: no step removes a registration, and a retrieval through a          *)
(* registered link whose file no longer exists is answered 404.            *)
C25_RegistryNeverShrinks ==
    /\ [](\A i \in 1..Len(temp_files) :
             ~PathExists(temp_files[i].path) =>
                 temp_download_file(NameText(temp_files[i].link)).code = 404)
    /\ RegistrationsStay

(* C26: temp_files holds one registration per link, and no step changes    *)
(* the path a link is registered to.                                       *)
C26_LinkKeepsItsFile ==
    /\ [](\A i, j \in 1..Len(temp_files) :
             temp_files[i].link = temp_files[j].link => i = j)
    /\ [][\A i \in 1..Len(temp_files) :
             i <= Len(temp_files') =>
                 temp_files'[i].path = temp_files[i].path]_vars

(* The attempts that are running and have a directory: an executor between *)
(* its mkdir and its last write, a request waiting on its child.           *)
RunningJobs ==
    {task_id \in DOMAIN exec :
        /\ exec[task_id].pc \in {"spawning", "awaiting", "hung"}
        /\ exec[task_id].kind # "meta"}
RunningReqs == {r \in DOMAIN req : req[r].pc = "awaiting"}
AttemptDirs ==
    {JobDir(task_id) : task_id \in RunningJobs} \cup {TempDir(r) : r \in RunningReqs}

(* C27: the running attempts have pairwise different directories, and a    *)
(* step in which an attempt does not move leaves its directory and the     *)
(* files in it as they were, whatever the attempt that moved did.          *)
C27_AttemptsOwnTheirDirectories ==
    /\ [](Cardinality(AttemptDirs) =
              Cardinality(RunningJobs) + Cardinality(RunningReqs))
    /\ [][/\ \A task_id \in RunningJobs :
                exec'[task_id] = exec[task_id] =>
                    /\ IsDir(JobDir(task_id)) => JobDir(task_id) \in DOMAIN dirs'
                    /\ ListDir(files', JobDir(task_id)) = ListDir(files, JobDir(task_id))
          /\ \A r \in RunningReqs :
                req'[r] = req[r] =>
                    /\ IsDir(TempDir(r)) => TempDir(r) \in DOMAIN dirs'
                    /\ ListDir(files', TempDir(r)) = ListDir(files, TempDir(r))]_vars

(* Two requests and a job are running, each in its directory, and a second *)
(* job has written its output and ended.                                   *)
C27_Witness ==
    /\ Cardinality(RunningReqs) = 2
    /\ \A r \in RunningReqs : IsDir(TempDir(r))
    /\ \E task_id \in RunningJobs : IsDir(JobDir(task_id))
    /\ \E task_id \in DOMAIN exec :
          exec[task_id].pc = "finished" /\ ListDir(files, JobDir(task_id)) # {}

(* The step that ends the janitor's work on url_cache removes only entries *)
(* older than the TTL at the cycle's current_time.                         *)
EvictsOnlyExpired ==
    [][(janitor.pc = "evict" /\ JanitorStep) =>
          \A k \in DOMAIN url_cache \ DOMAIN url_cache' :
              janitor.current_time - url_cache[k].timestamp > CACHE_TTL]_vars

(* That step leaves no entry older than the TTL at the cycle's             *)
(* current_time.                                                           *)
EvictsEveryExpired ==
    [][(janitor.pc = "evict" /\ JanitorStep) =>
          \A k \in DOMAIN url_cache' :
              janitor.current_time - url_cache'[k].timestamp <= CACHE_TTL]_vars

(* C29: whatever the handlers store while a janitor cycle runs, the cycle  *)
(* removes no entry that is not expired, and every entry that was expired  *)
(* when the cycle began is gone when it ends.                              *)
C29_ScanSafeAgainstStores == EvictsOnlyExpired /\ EvictsEveryExpired

(* The janitor begins a cycle again and again. *)
JanitorKeepsCycling == []<><<JanitorCycleBegins>>_vars

(* C28: the janitor begins a cycle again and again, and no cache entry     *)
(* stays in url_cache, expired, for ever: some cycle removes it.           *)
C28_JanitorGoesOnAndEvicts ==
    /\ JanitorKeepsCycling
    /\ \A k \in AllKeys :
          ~<>[](/\ k \in DOMAIN url_cache
                /\ now - url_cache[k].timestamp > CACHE_TTL)

(* C30: an id that DELETE has removed has no record in any later state: a  *)
(* status query for it is answered 404 and no record of the listing        *)
(* carries it; the steps its executor still takes leave task_status as it  *)
(* is.                                                                     *)
C30_DeletedJobNotResurrected ==
    /\ [](\A task_id \in deleted :
             /\ get_download_status(task_id).code = 404
             /\ \A status \in list_tasks.tasks : status.task_id # task_id)
    /\ [][\A task_id \in deleted :
             exec'[task_id] # exec[task_id] => task_status' = task_status]_vars

(* A job was deleted while its executor was waiting for the tool, and the  *)
(* executor has since come back from the wait.                             *)
C30_Witness ==
    \E task_id \in deleted :
        /\ exec[task_id].pc = "crashed"
        /\ IsDir(JobDir(task_id))
        /\ get_download_status(task_id).code = 404

(* No step other than the DELETE of the job removes what the file_path of  *)
(* a completed job names.                                                  *)
ResultStaysUntilDeleted ==
    [][\A task_id \in DOMAIN task_status :
          (/\ task_status[task_id].status = "completed"
           /\ task_status[task_id].file_path # NoPath
           /\ PathExists(task_status[task_id].file_path)
           /\ task_id \in DOMAIN task_status') =>
              /\ task_status'[task_id].file_path = task_status[task_id].file_path
              /\ task_status[task_id].file_path \in files' \cup DOMAIN dirs']_vars

(* C31: in every state, the file or directory that the file_path of a      *)
(* completed job names is present on disk.                                 *)
C31_CompletedResultIsOnDisk ==
    \A task_id \in DOMAIN task_status :
        (/\ task_status[task_id].status = "completed"
         /\ task_status[task_id].file_path # NoPath) =>
            PathExists(task_status[task_id].file_path)

====
